---- MODULE Spec2Model ----
(***************************************************************************)
(* Model of examples/python_example.py: the SecurePasteClient wrapper and  *)
(* the main() demonstration driver.                                        *)
(*                                                                         *)
(* The remote service and the HTTP library are the environment.  One call  *)
(* on the session (session.get/post/put/delete) is one exchange; its       *)
(* outcome is either an exception raised by the library (a transport       *)
(* failure) or a final response with a status code and a raw body text.    *)
(* Redirect handling inside the library is not part of the model: "one     *)
(* request" means one call on the session.                                 *)
(*                                                                         *)
(* Library behaviour the code relies on is modelled by what it does:       *)
(*   Response.raise_for_status raises HTTPError for 400 <= status < 600;   *)
(*   Response.json raises requests.JSONDecodeError, a RequestException     *)
(*   (requests >= 2.27), on a body that is not JSON;                       *)
(*   bool(response) is response.ok, false exactly when raise_for_status    *)
(*   would raise;                                                          *)
(*   RequestException.response is None unless a response was attached.     *)
(***************************************************************************)
EXTENDS Integers, Sequences, FiniteSets, TLC

VARIABLES pc, sent, last, healthy, simple_paste_id, protected_paste_id,
          expiring_paste, exit_code, stdout

vars == <<pc, sent, last, healthy, simple_paste_id, protected_paste_id,
          expiring_paste, exit_code, stdout>>

(***************************************************************************)
(* Python values                                                           *)
(***************************************************************************)
PyNone == [type |-> "NoneType"]

PyBool(b) == [type |-> "bool", b |-> b]

PyInt(n) == [type |-> "int", n |-> n]

PyStr(s) == [type |-> "str", s |-> s]

PyList(items) == [type |-> "list", items |-> items]

PyDict(d) == [type |-> "dict", d |-> d]

\* bool(v): Python truth value testing, as used by "if paste:", "if password:"
Truthy(v) ==
    CASE v.type = "NoneType" -> FALSE
      [] v.type = "bool"     -> v.b
      [] v.type = "int"      -> v.n # 0
      [] v.type = "str"      -> v.s # ""
      [] v.type = "list"     -> Len(v.items) > 0
      [] v.type = "dict"     -> DOMAIN v.d # {}

\* The exception raised by v[key] for a string key, or "none"
SubscriptExc(v, key) ==
    IF v.type = "dict"
    THEN IF key \in DOMAIN v.d THEN "none" ELSE "KeyError"
    ELSE "TypeError"

\* The exception raised by v.get(key, default), or "none"
GetExc(v) == IF v.type = "dict" THEN "none" ELSE "AttributeError"

\* v.get(key, default) on a dict
Get(v, key, default) == IF key \in DOMAIN v.d THEN v.d[key] ELSE default

\* The first exception of a sequence of evaluations, "none" if none raises
FirstExc(excs) ==
    IF \A i \in 1..Len(excs) : excs[i] = "none"
    THEN "none"
    ELSE excs[CHOOSE i \in 1..Len(excs) :
                 /\ excs[i] # "none"
                 /\ \A j \in 1..(i - 1) : excs[j] = "none"]

\* str(v) inside an f-string
Format(v) ==
    CASE v.type = "str"      -> v.s
      [] v.type = "NoneType" -> "None"
      [] v.type = "int"      -> ToString(v.n)
      [] OTHER               -> "<" \o v.type \o ">"

(***************************************************************************)
(* The HTTP boundary                                                       *)
(***************************************************************************)
base_url == "http://localhost:8080"

api_base == base_url \o "/api/pastes"

\* A paste record as the service sends it
PasteRecord(id) ==
    PyDict([id |-> PyStr(id), title |-> PyStr("T"), visibility |-> PyStr("PUBLIC"),
            viewCount |-> PyInt(1), createdAt |-> PyStr("2024-01-01T00:00:00"),
            content |-> PyStr("C")])

PageRecord(items) ==
    PyDict([content |-> PyList(items), totalElements |-> PyInt(Len(items))])

\* Raw response bodies the service (or a proxy in front of it) can send
JsonTexts ==
    { "null", "[1]", "{}", "{status:UP}", "{status:DOWN}", "{error:denied}",
      "{paste:p1}", "{paste:p2}", "{paste:p1,-title}", "{paste:-id}",
      "{page:[]}", "{page:[p1]}", "{page:[p1],-totalElements}", "{page:[{}]}",
      "{stats}", "{stats:[[python]]}" }

NonJsonTexts == { "", "<html>Bad Gateway</html>" }

Texts == JsonTexts \cup NonJsonTexts

\* json.loads: the decoded value of a raw body that is valid JSON
loads(text) ==
    CASE text = "null"            -> PyNone
      [] text = "[1]"             -> PyList(<<PyInt(1)>>)
      [] text = "{}"              -> PyDict(<<>>)
      [] text = "{status:UP}"     -> PyDict([status |-> PyStr("UP")])
      [] text = "{status:DOWN}"   -> PyDict([status |-> PyStr("DOWN")])
      [] text = "{error:denied}"  -> PyDict([error |-> PyStr("denied")])
      [] text = "{paste:p1}"      -> PasteRecord("p1")
      [] text = "{paste:p2}"      -> PasteRecord("p2")
      [] text = "{paste:p1,-title}" ->
            PyDict([id |-> PyStr("p1"), visibility |-> PyStr("PUBLIC"),
                    viewCount |-> PyInt(1), createdAt |-> PyStr("2024-01-01T00:00:00"),
                    content |-> PyStr("C")])
      [] text = "{paste:-id}"     ->
            PyDict([title |-> PyStr("T"), visibility |-> PyStr("PUBLIC"),
                    viewCount |-> PyInt(1), createdAt |-> PyStr("2024-01-01T00:00:00"),
                    content |-> PyStr("C")])
      [] text = "{page:[]}"       -> PageRecord(<<>>)
      [] text = "{page:[p1]}"     -> PageRecord(<<PasteRecord("p1")>>)
      [] text = "{page:[p1],-totalElements}" ->
            PyDict([content |-> PyList(<<PasteRecord("p1")>>)])
      [] text = "{page:[{}]}"     -> PageRecord(<<PyDict(<<>>)>>)
      [] text = "{stats}"         ->
            PyDict([totalPastes |-> PyInt(3), publicPastes |-> PyInt(2),
                    totalViews |-> PyInt(7),
                    popularLanguages |->
                        PyList(<<PyList(<<PyStr("python"), PyInt(2)>>)>>)])
      [] text = "{stats:[[python]]}" ->
            PyDict([totalPastes |-> PyInt(3),
                    popularLanguages |-> PyList(<<PyList(<<PyStr("python")>>)>>)])

StatusCodes == { 200, 304, 404 }

\* The outcomes of one call on the session
TransportFailure == [exc |-> "ConnectionError", status |-> 0, text |-> ""]

Response(status, text) == [exc |-> "none", status |-> status, text |-> text]

Exchanges ==
    {TransportFailure} \cup { Response(s, t) : s \in StatusCodes, t \in Texts }

\* Variant: only server errors (5xx) raise
raise_for_status_server_errors(status) == status >= 500 /\ status < 600

\* Response.raise_for_status(): TRUE when it raises HTTPError
raise_for_status(status) == status >= 400 /\ status < 600

\* Response.json(): TRUE when it raises requests.JSONDecodeError
json_raises(text) == text \in NonJsonTexts

\* bool(response), i.e. Response.ok
Response__bool__(status) == ~raise_for_status(status)

\* The RequestException raised inside "try:" by the call on the session,
\* raise_for_status() and (when decode is set) json(); type "none" if none.
\* response is the Response attached to the exception, PyNone if none.
TryBody(ex, decode) ==
    IF ex.exc # "none"
    THEN [type |-> ex.exc, response |-> PyNone, msg |-> ex.exc]
    ELSE IF raise_for_status(ex.status)
    THEN [type |-> "HTTPError",
          response |-> [type |-> "Response", status |-> ex.status, text |-> ex.text],
          msg |-> ToString(ex.status) \o " Error for url"]
    ELSE IF decode /\ json_raises(ex.text)
    THEN [type |-> "JSONDecodeError", response |-> PyNone,
          msg |-> "Expecting value"]
    ELSE [type |-> "none", response |-> PyNone, msg |-> ""]

\* if hasattr(e, 'response') and e.response: print(f"Response: {e.response.text}")
ResponseLine(e) ==
    IF e.response.type = "Response" /\ Response__bool__(e.response.status)
    THEN << <<"Response", e.response.text>> >>
    ELSE << >>

(***************************************************************************)
(* SecurePasteClient                                                       *)
(*                                                                         *)
(* Every method takes the outcome ex of its call on the session and gives  *)
(* the record of what the call did: the requests it sent, the lines it     *)
(* printed, the value it returned and the exception it let escape ("none"  *)
(* when it returned normally).                                             *)
(***************************************************************************)
Request(method, url, params, json) ==
    [method |-> method, url |-> url, params |-> params, json |-> json]

Returned(req, ret, out) ==
    [sent |-> <<req>>, ret |-> ret, exc |-> "none", out |-> out]

Raised(req, exc) ==
    [sent |-> <<req>>, ret |-> PyNone, exc |-> exc, out |-> << >>]

create_paste(title, content, kwargs, ex) ==
    LET data == kwargs @@ [title |-> title, content |-> content]
        req  == Request("POST", api_base, PyNone, PyDict(data))
        e    == TryBody(ex, TRUE)
    IN  IF e.type = "none"
        THEN Returned(req, loads(ex.text), << >>)
        ELSE Returned(req, PyNone,
                      << <<"Error creating paste", e.msg>> >> \o ResponseLine(e))

\* Variant: the password is added whenever it is not None
get_paste_password_not_none(paste_id, password, ex) ==
    LET params == IF password.type # "NoneType" THEN [password |-> password] ELSE << >>
        req    == Request("GET", api_base \o "/" \o Format(paste_id),
                          PyDict(params), PyNone)
        e      == TryBody(ex, TRUE)
    IN  IF e.type = "none"
        THEN Returned(req, loads(ex.text), << >>)
        ELSE Returned(req, PyNone,
                      << <<"Error retrieving paste " \o Format(paste_id), e.msg>> >>
                          \o ResponseLine(e))

get_paste(paste_id, password, ex) ==
    LET params == IF Truthy(password) THEN [password |-> password] ELSE << >>
        req    == Request("GET", api_base \o "/" \o Format(paste_id),
                          PyDict(params), PyNone)
        e      == TryBody(ex, TRUE)
    IN  IF e.type = "none"
        THEN Returned(req, loads(ex.text), << >>)
        ELSE Returned(req, PyNone,
                      << <<"Error retrieving paste " \o Format(paste_id), e.msg>> >>
                          \o ResponseLine(e))

update_paste(paste_id, kwargs, ex) ==
    LET req == Request("PUT", api_base \o "/" \o Format(paste_id),
                       PyNone, PyDict(kwargs))
        e   == TryBody(ex, TRUE)
    IN  IF e.type = "none"
        THEN Returned(req, loads(ex.text), << >>)
        ELSE Returned(req, PyNone,
                      << <<"Error updating paste " \o Format(paste_id), e.msg>> >>
                          \o ResponseLine(e))

\* Variant: the body of the response is decoded before True is returned
delete_paste_decoding_body(paste_id, ex) ==
    LET req == Request("DELETE", api_base \o "/" \o Format(paste_id),
                       PyNone, PyNone)
        e   == TryBody(ex, TRUE)
    IN  IF e.type = "none"
        THEN Returned(req, PyBool(TRUE), << >>)
        ELSE Returned(req, PyBool(FALSE),
                      << <<"Error deleting paste " \o Format(paste_id), e.msg>> >>)

delete_paste(paste_id, ex) ==
    LET req == Request("DELETE", api_base \o "/" \o Format(paste_id),
                       PyNone, PyNone)
        e   == TryBody(ex, FALSE)
    IN  IF e.type = "none"
        THEN Returned(req, PyBool(TRUE), << >>)
        ELSE Returned(req, PyBool(FALSE),
                      << <<"Error deleting paste " \o Format(paste_id), e.msg>> >>)

get_public_pastes(page, size, ex) ==
    LET params == [page |-> PyInt(page), size |-> PyInt(size)]
        req    == Request("GET", api_base \o "/public", PyDict(params), PyNone)
        e      == TryBody(ex, TRUE)
    IN  IF e.type = "none"
        THEN Returned(req, loads(ex.text), << >>)
        ELSE Returned(req, PyNone, << <<"Error getting public pastes", e.msg>> >>)

\* Variant: a failed search is sent a second time
search_pastes_retrying(query, page, size, ex) ==
    LET params == [q |-> PyStr(query), page |-> PyInt(page), size |-> PyInt(size)]
        req    == Request("GET", api_base \o "/search", PyDict(params), PyNone)
        e      == TryBody(ex, TRUE)
    IN  IF e.type = "none"
        THEN Returned(req, loads(ex.text), << >>)
        ELSE [sent |-> <<req, req>>, ret |-> PyNone, exc |-> "none",
              out |-> << <<"Error searching pastes", e.msg>> >>]

search_pastes(query, page, size, ex) ==
    LET params == [q |-> PyStr(query), page |-> PyInt(page), size |-> PyInt(size)]
        req    == Request("GET", api_base \o "/search", PyDict(params), PyNone)
        e      == TryBody(ex, TRUE)
    IN  IF e.type = "none"
        THEN Returned(req, loads(ex.text), << >>)
        ELSE Returned(req, PyNone, << <<"Error searching pastes", e.msg>> >>)

get_pastes_by_language(language, page, size, ex) ==
    LET params == [page |-> PyInt(page), size |-> PyInt(size)]
        req    == Request("GET", api_base \o "/language/" \o language,
                          PyDict(params), PyNone)
        e      == TryBody(ex, TRUE)
    IN  IF e.type = "none"
        THEN Returned(req, loads(ex.text), << >>)
        ELSE Returned(req, PyNone,
                      << <<"Error getting pastes for language " \o language, e.msg>> >>)

get_statistics(ex) ==
    LET req == Request("GET", api_base \o "/stats", PyNone, PyNone)
        e   == TryBody(ex, TRUE)
    IN  IF e.type = "none"
        THEN Returned(req, loads(ex.text), << >>)
        ELSE Returned(req, PyNone, << <<"Error getting statistics", e.msg>> >>)

health_check(ex) ==
    LET req  == Request("GET", api_base \o "/health", PyNone, PyNone)
        e    == TryBody(ex, TRUE)
        body == loads(ex.text)
    IN  IF e.type # "none"
        THEN Returned(req, PyBool(FALSE), << >>)
        ELSE IF GetExc(body) # "none"
        THEN Raised(req, GetExc(body))
        ELSE Returned(req, PyBool(Get(body, "status", PyNone) = PyStr("UP")), << >>)

(***************************************************************************)
(* print_paste_info and main                                               *)
(***************************************************************************)
\* The exception raised by v[i] for an integer index, or "none"
IndexExc(v, i) ==
    CASE v.type = "list" -> IF i < Len(v.items) THEN "none" ELSE "IndexError"
      [] v.type = "dict" -> "KeyError"
      [] OTHER           -> "TypeError"

\* The exception raised by v[:n], or "none"
SliceExc(v) == IF v.type \in {"list", "str"} THEN "none" ELSE "TypeError"

\* The exception print_paste_info(paste) raises, or "none"
print_paste_info(paste) ==
    IF ~Truthy(paste)
    THEN "none"
    ELSE FirstExc(<< SubscriptExc(paste, "id"),
                     SubscriptExc(paste, "title"),
                     SubscriptExc(paste, "visibility"),
                     SubscriptExc(paste, "viewCount"),
                     SubscriptExc(paste, "createdAt"),
                     SubscriptExc(paste, "content"),
                     IF SubscriptExc(paste, "content") = "none"
                     THEN SliceExc(paste.d.content) ELSE "none" >>)

\* for paste in content[:2]: print_paste_info(paste)
PrintFirstTwo(content) ==
    CASE content.type = "list" ->
            FirstExc([i \in 1..(IF Len(content.items) < 2 THEN Len(content.items) ELSE 2)
                        |-> print_paste_info(content.items[i])])
      [] content.type = "str"  -> "TypeError"
      [] OTHER                 -> "TypeError"

\* for lang_data in popular_langs[:5]: lang_data[0], lang_data[1]
PrintLanguages(popular_langs) ==
    IF ~Truthy(popular_langs)
    THEN "none"
    ELSE IF popular_langs.type # "list"
    THEN "TypeError"
    ELSE FirstExc([i \in 1..(IF Len(popular_langs.items) < 5
                             THEN Len(popular_langs.items) ELSE 5)
                     |-> FirstExc(<< IndexExc(popular_langs.items[i], 0),
                                     IndexExc(popular_langs.items[i], 1) >>)])

\* A line printed by main (the client's lines are <<prefix, message>>)
Line(text) == <<"main", text>>

NoCall ==
    [op |-> "none", args |-> << >>, ex |-> TransportFailure, sent |-> << >>,
     ret |-> PyNone, exc |-> "none", out |-> << >>]

\* The record of one call of a client method
Call(op, args, ex, r) == [op |-> op, args |-> args, ex |-> ex] @@ r

Init ==
    /\ pc = "health_check"
    /\ sent = << >>
    /\ last = NoCall
    /\ healthy = PyNone
    /\ simple_paste_id = PyNone
    /\ protected_paste_id = PyNone
    /\ expiring_paste = PyNone
    /\ exit_code = -1
    /\ stdout = << Line("SecurePaste Python API Client Example") >>

\* An exception escapes main: the interpreter prints a traceback and exits 1
Traceback(exc) ==
    /\ pc' = "raised"
    /\ exit_code' = 1
    /\ stdout' = << Line("Traceback: " \o exc) >>

\* Control reaches the next step of main
Goto(next, lines) ==
    /\ pc' = next
    /\ exit_code' = exit_code
    /\ stdout' = lines

\* Variant: the driver goes on after a failed health check
main_health_check_continue ==
    /\ pc = "health_check"
    /\ \E ex \in Exchanges :
         LET r == health_check(ex)
         IN  /\ sent' = sent \o r.sent
             /\ last' = Call("health_check", << >>, ex, r)
             /\ IF r.exc # "none"
                THEN Traceback(r.exc) /\ UNCHANGED healthy
                ELSE /\ healthy' = r.ret
                     /\ Goto("create_simple",
                             IF Truthy(r.ret)
                             THEN << Line("Service is healthy") >>
                             ELSE << Line("Service is not available") >>)
    /\ UNCHANGED <<simple_paste_id, protected_paste_id, expiring_paste>>

\* lines 241-247
main_health_check ==
    /\ pc = "health_check"
    /\ \E ex \in Exchanges :
         LET r == health_check(ex)
         IN  /\ sent' = sent \o r.sent
             /\ last' = Call("health_check", << >>, ex, r)
             /\ IF r.exc # "none"
                THEN Traceback(r.exc) /\ UNCHANGED healthy
                ELSE /\ healthy' = r.ret
                     /\ IF Truthy(r.ret)
                        THEN Goto("create_simple", << Line("Service is healthy") >>)
                        ELSE /\ pc' = "exited"
                             /\ exit_code' = 1
                             /\ stdout' = << Line("Service is not available") >>
    /\ UNCHANGED <<simple_paste_id, protected_paste_id, expiring_paste>>

SimpleArgs ==
    [title |-> PyStr("Hello World Example"),
     content |-> PyStr("print(Hello, World from Python!)"),
     kwargs |-> [language |-> PyStr("python"), authorName |-> PyStr("API Example"),
                 visibility |-> PyStr("PUBLIC")]]

\* lines 249-265
main_create_simple ==
    /\ pc = "create_simple"
    /\ \E ex \in Exchanges :
         LET a   == SimpleArgs
             r   == create_paste(a.title, a.content, a.kwargs, ex)
             exc == FirstExc(<< print_paste_info(r.ret), SubscriptExc(r.ret, "id") >>)
         IN  /\ sent' = sent \o r.sent
             /\ last' = Call("create_paste", a, ex, r)
             /\ IF Truthy(r.ret)
                THEN IF exc # "none"
                     THEN Traceback(exc) /\ UNCHANGED simple_paste_id
                     ELSE /\ simple_paste_id' = r.ret.d.id
                          /\ Goto("create_protected", << Line("Paste created successfully") >>)
                ELSE /\ pc' = "returned"
                     /\ exit_code' = 0
                     /\ stdout' = r.out \o << Line("Failed to create paste") >>
                     /\ UNCHANGED simple_paste_id
    /\ UNCHANGED <<healthy, protected_paste_id, expiring_paste>>

ProtectedArgs ==
    [title |-> PyStr("Secret Code"),
     content |-> PyStr("const secret = 'This is a secret message!';"),
     kwargs |-> [language |-> PyStr("javascript"), visibility |-> PyStr("UNLISTED"),
                 password |-> PyStr("secret123")]]

\* lines 267-283
main_create_protected ==
    /\ pc = "create_protected"
    /\ \E ex \in Exchanges :
         LET a   == ProtectedArgs
             r   == create_paste(a.title, a.content, a.kwargs, ex)
             exc == FirstExc(<< print_paste_info(r.ret), SubscriptExc(r.ret, "id") >>)
         IN  /\ sent' = sent \o r.sent
             /\ last' = Call("create_paste", a, ex, r)
             /\ IF Truthy(r.ret)
                THEN IF exc # "none"
                     THEN Traceback(exc) /\ UNCHANGED protected_paste_id
                     ELSE /\ protected_paste_id' = r.ret.d.id
                          /\ Goto("create_expiring",
                                  << Line("Protected paste created successfully") >>)
                ELSE /\ pc' = "returned"
                     /\ exit_code' = 0
                     /\ stdout' = r.out \o << Line("Failed to create protected paste") >>
                     /\ UNCHANGED protected_paste_id
    /\ UNCHANGED <<healthy, simple_paste_id, expiring_paste>>

ExpiringArgs ==
    [title |-> PyStr("Temporary Code Snippet"),
     content |-> PyStr("// This paste will expire in 60 minutes"),
     kwargs |-> [language |-> PyStr("javascript"), expirationMinutes |-> PyInt(60),
                 visibility |-> PyStr("PUBLIC")]]

\* lines 285-297
main_create_expiring ==
    /\ pc = "create_expiring"
    /\ \E ex \in Exchanges :
         LET a   == ExpiringArgs
             r   == create_paste(a.title, a.content, a.kwargs, ex)
             exc == print_paste_info(r.ret)
         IN  /\ sent' = sent \o r.sent
             /\ last' = Call("create_paste", a, ex, r)
             /\ expiring_paste' = r.ret
             /\ IF exc # "none"
                THEN Traceback(exc)
                ELSE Goto("get_simple",
                          r.out \o (IF Truthy(r.ret)
                                    THEN << Line("Expiring paste created successfully") >>
                                    ELSE << >>))
    /\ UNCHANGED <<healthy, simple_paste_id, protected_paste_id>>

\* lines 299-304
main_get_simple ==
    /\ pc = "get_simple"
    /\ \E ex \in Exchanges :
         LET a   == [paste_id |-> simple_paste_id, password |-> PyNone]
             r   == get_paste(a.paste_id, a.password, ex)
             exc == IF Truthy(r.ret) THEN SubscriptExc(r.ret, "viewCount") ELSE "none"
         IN  /\ sent' = sent \o r.sent
             /\ last' = Call("get_paste", a, ex, r)
             /\ IF exc # "none"
                THEN Traceback(exc)
                ELSE Goto("get_protected",
                          r.out \o (IF Truthy(r.ret)
                                    THEN << Line("Paste retrieved successfully") >>
                                    ELSE << >>))
    /\ UNCHANGED <<healthy, simple_paste_id, protected_paste_id, expiring_paste>>

\* Variant: the second retrieval uses the id of the simple paste
main_get_protected_wrong_id ==
    /\ pc = "get_protected"
    /\ \E ex \in Exchanges :
         LET a == [paste_id |-> simple_paste_id, password |-> PyNone]
             r == get_paste(a.paste_id, a.password, ex)
         IN  /\ sent' = sent \o r.sent
             /\ last' = Call("get_paste", a, ex, r)
             /\ Goto("get_protected_with_password",
                     r.out \o (IF ~Truthy(r.ret)
                               THEN << Line("Correctly denied access without password") >>
                               ELSE << >>))
    /\ UNCHANGED <<healthy, simple_paste_id, protected_paste_id, expiring_paste>>

\* lines 306-310
main_get_protected ==
    /\ pc = "get_protected"
    /\ \E ex \in Exchanges :
         LET a == [paste_id |-> protected_paste_id, password |-> PyNone]
             r == get_paste(a.paste_id, a.password, ex)
         IN  /\ sent' = sent \o r.sent
             /\ last' = Call("get_paste", a, ex, r)
             /\ Goto("get_protected_with_password",
                     r.out \o (IF ~Truthy(r.ret)
                               THEN << Line("Correctly denied access without password") >>
                               ELSE << >>))
    /\ UNCHANGED <<healthy, simple_paste_id, protected_paste_id, expiring_paste>>

\* lines 312-316
main_get_protected_with_password ==
    /\ pc = "get_protected_with_password"
    /\ \E ex \in Exchanges :
         LET a == [paste_id |-> protected_paste_id, password |-> PyStr("secret123")]
             r == get_paste(a.paste_id, a.password, ex)
         IN  /\ sent' = sent \o r.sent
             /\ last' = Call("get_paste", a, ex, r)
             /\ Goto("update",
                     r.out \o (IF Truthy(r.ret)
                               THEN << Line("Protected paste retrieved successfully with password") >>
                               ELSE << >>))
    /\ UNCHANGED <<healthy, simple_paste_id, protected_paste_id, expiring_paste>>

UpdateKwargs ==
    [title |-> PyStr("Updated Hello World Example"),
     content |-> PyStr("print(Hello, Updated World from Python!)")]

\* lines 318-327
main_update ==
    /\ pc = "update"
    /\ \E ex \in Exchanges :
         LET a   == [paste_id |-> simple_paste_id, kwargs |-> UpdateKwargs]
             r   == update_paste(a.paste_id, a.kwargs, ex)
             exc == IF Truthy(r.ret) THEN SubscriptExc(r.ret, "title") ELSE "none"
         IN  /\ sent' = sent \o r.sent
             /\ last' = Call("update_paste", a, ex, r)
             /\ IF exc # "none"
                THEN Traceback(exc)
                ELSE Goto("search",
                          r.out \o (IF Truthy(r.ret)
                                    THEN << Line("Paste updated successfully") >>
                                    ELSE << >>))
    /\ UNCHANGED <<healthy, simple_paste_id, protected_paste_id, expiring_paste>>

\* The exception raised by "if page and page['content']:", or "none"
PageTestExc(page) ==
    IF Truthy(page) THEN SubscriptExc(page, "content") ELSE "none"

\* The value of "page and page['content']" as a condition
PageTest(page) ==
    Truthy(page) /\ PageTestExc(page) = "none" /\ Truthy(page.d.content)

\* The exception raised by len(v), or "none"
LenExc(v) == IF v.type \in {"list", "str", "dict"} THEN "none" ELSE "TypeError"

\* lines 329-335
main_search ==
    /\ pc = "search"
    /\ \E ex \in Exchanges :
         LET a   == [query |-> "Python", page |-> 0, size |-> 5]
             r   == search_pastes(a.query, a.page, a.size, ex)
             exc == IF PageTest(r.ret)
                    THEN FirstExc(<< LenExc(r.ret.d.content),
                                     PrintFirstTwo(r.ret.d.content) >>)
                    ELSE PageTestExc(r.ret)
         IN  /\ sent' = sent \o r.sent
             /\ last' = Call("search_pastes", a, ex, r)
             /\ IF exc # "none"
                THEN Traceback(exc)
                ELSE Goto("by_language",
                          r.out \o (IF PageTest(r.ret)
                                    THEN << Line("Found Python-related pastes") >>
                                    ELSE << >>))
    /\ UNCHANGED <<healthy, simple_paste_id, protected_paste_id, expiring_paste>>

\* lines 337-341
main_by_language ==
    /\ pc = "by_language"
    /\ \E ex \in Exchanges :
         LET a   == [language |-> "javascript", page |-> 0, size |-> 3]
             r   == get_pastes_by_language(a.language, a.page, a.size, ex)
             exc == IF PageTest(r.ret)
                    THEN LenExc(r.ret.d.content)
                    ELSE PageTestExc(r.ret)
         IN  /\ sent' = sent \o r.sent
             /\ last' = Call("get_pastes_by_language", a, ex, r)
             /\ IF exc # "none"
                THEN Traceback(exc)
                ELSE Goto("public",
                          r.out \o (IF PageTest(r.ret)
                                    THEN << Line("Found JavaScript pastes") >>
                                    ELSE << >>))
    /\ UNCHANGED <<healthy, simple_paste_id, protected_paste_id, expiring_paste>>

\* lines 343-348
main_public ==
    /\ pc = "public"
    /\ \E ex \in Exchanges :
         LET a   == [page |-> 0, size |-> 5]
             r   == get_public_pastes(a.page, a.size, ex)
             exc == IF PageTest(r.ret)
                    THEN FirstExc(<< LenExc(r.ret.d.content),
                                     SubscriptExc(r.ret, "totalElements") >>)
                    ELSE PageTestExc(r.ret)
         IN  /\ sent' = sent \o r.sent
             /\ last' = Call("get_public_pastes", a, ex, r)
             /\ IF exc # "none"
                THEN Traceback(exc)
                ELSE Goto("statistics",
                          r.out \o (IF PageTest(r.ret)
                                    THEN << Line("Retrieved public pastes") >>
                                    ELSE << >>))
    /\ UNCHANGED <<healthy, simple_paste_id, protected_paste_id, expiring_paste>>

\* lines 350-362
main_statistics ==
    /\ pc = "statistics"
    /\ \E ex \in Exchanges :
         LET r   == get_statistics(ex)
             exc == IF ~Truthy(r.ret)
                    THEN "none"
                    ELSE IF GetExc(r.ret) # "none"
                    THEN GetExc(r.ret)
                    ELSE PrintLanguages(Get(r.ret, "popularLanguages", PyList(<< >>)))
         IN  /\ sent' = sent \o r.sent
             /\ last' = Call("get_statistics", << >>, ex, r)
             /\ IF exc # "none"
                THEN Traceback(exc)
                ELSE Goto("delete_simple",
                          r.out \o (IF Truthy(r.ret)
                                    THEN << Line("Statistics retrieved successfully") >>
                                    ELSE << >>))
    /\ UNCHANGED <<healthy, simple_paste_id, protected_paste_id, expiring_paste>>

\* lines 364-367
main_delete_simple ==
    /\ pc = "delete_simple"
    /\ \E ex \in Exchanges :
         LET a == [paste_id |-> simple_paste_id]
             r == delete_paste(a.paste_id, ex)
         IN  /\ sent' = sent \o r.sent
             /\ last' = Call("delete_paste", a, ex, r)
             /\ Goto("delete_protected",
                     r.out \o (IF Truthy(r.ret)
                               THEN << Line("Simple paste deleted") >>
                               ELSE << >>))
    /\ UNCHANGED <<healthy, simple_paste_id, protected_paste_id, expiring_paste>>

\* lines 368-371
main_delete_protected ==
    /\ pc = "delete_protected"
    /\ \E ex \in Exchanges :
         LET a == [paste_id |-> protected_paste_id]
             r == delete_paste(a.paste_id, ex)
         IN  /\ sent' = sent \o r.sent
             /\ last' = Call("delete_paste", a, ex, r)
             /\ pc' = "completed"
             /\ exit_code' = 0
             /\ stdout' = r.out \o (IF Truthy(r.ret)
                                    THEN << Line("Protected paste deleted") >>
                                    ELSE << >>)
                                \o << Line("Example completed successfully!") >>
    /\ UNCHANGED <<healthy, simple_paste_id, protected_paste_id, expiring_paste>>

Next ==
    \/ main_health_check
    \/ main_create_simple
    \/ main_create_protected
    \/ main_create_expiring
    \/ main_get_simple
    \/ main_get_protected
    \/ main_get_protected_with_password
    \/ main_update
    \/ main_search
    \/ main_by_language
    \/ main_public
    \/ main_statistics
    \/ main_delete_simple
    \/ main_delete_protected

Spec == Init /\ [][Next]_vars

(***************************************************************************)
(* A caller of the client: any method, any argument, any outcome           *)
(***************************************************************************)
MaxCalls == 2

PasteIds == { PyStr("p1") }

Passwords == { PyNone, PyStr(""), PyStr("secret123") }

Kwargs == { << >>, [password |-> PyStr("secret123")] }

ClientTexts ==
    { "", "<html>Bad Gateway</html>", "null", "[1]", "{}", "{status:UP}",
      "{status:DOWN}", "{error:denied}", "{paste:p1}" }

ClientExchanges ==
    {TransportFailure} \cup { Response(s, t) : s \in StatusCodes, t \in ClientTexts }

ClientInit ==
    /\ pc = "client"
    /\ sent = << >>
    /\ last = NoCall
    /\ healthy = PyNone
    /\ simple_paste_id = PyNone
    /\ protected_paste_id = PyNone
    /\ expiring_paste = PyNone
    /\ exit_code = -1
    /\ stdout = << >>

idle == <<pc, healthy, simple_paste_id, protected_paste_id, expiring_paste, exit_code>>

call_create_paste ==
    /\ pc = "client"
    /\ Len(sent) < MaxCalls
    /\ \E kwargs \in Kwargs, ex \in ClientExchanges :
         LET a == [title |-> PyStr("T"), content |-> PyStr("C"), kwargs |-> kwargs]
             r == create_paste(a.title, a.content, a.kwargs, ex)
         IN  /\ sent' = sent \o r.sent
             /\ last' = Call("create_paste", a, ex, r)
             /\ stdout' = r.out
    /\ UNCHANGED idle

call_get_paste ==
    /\ pc = "client"
    /\ Len(sent) < MaxCalls
    /\ \E paste_id \in PasteIds, password \in Passwords, ex \in ClientExchanges :
         LET a == [paste_id |-> paste_id, password |-> password]
             r == get_paste(a.paste_id, a.password, ex)
         IN  /\ sent' = sent \o r.sent
             /\ last' = Call("get_paste", a, ex, r)
             /\ stdout' = r.out
    /\ UNCHANGED idle

call_update_paste ==
    /\ pc = "client"
    /\ Len(sent) < MaxCalls
    /\ \E paste_id \in PasteIds, ex \in ClientExchanges :
         LET a == [paste_id |-> paste_id, kwargs |-> [title |-> PyStr("T2")]]
             r == update_paste(a.paste_id, a.kwargs, ex)
         IN  /\ sent' = sent \o r.sent
             /\ last' = Call("update_paste", a, ex, r)
             /\ stdout' = r.out
    /\ UNCHANGED idle

call_delete_paste ==
    /\ pc = "client"
    /\ Len(sent) < MaxCalls
    /\ \E paste_id \in PasteIds, ex \in ClientExchanges :
         LET a == [paste_id |-> paste_id]
             r == delete_paste(a.paste_id, ex)
         IN  /\ sent' = sent \o r.sent
             /\ last' = Call("delete_paste", a, ex, r)
             /\ stdout' = r.out
    /\ UNCHANGED idle

call_get_public_pastes ==
    /\ pc = "client"
    /\ Len(sent) < MaxCalls
    /\ \E ex \in ClientExchanges :
         LET a == [page |-> 0, size |-> 10]
             r == get_public_pastes(a.page, a.size, ex)
         IN  /\ sent' = sent \o r.sent
             /\ last' = Call("get_public_pastes", a, ex, r)
             /\ stdout' = r.out
    /\ UNCHANGED idle

call_search_pastes ==
    /\ pc = "client"
    /\ Len(sent) < MaxCalls
    /\ \E ex \in ClientExchanges :
         LET a == [query |-> "Python", page |-> 0, size |-> 10]
             r == search_pastes(a.query, a.page, a.size, ex)
         IN  /\ sent' = sent \o r.sent
             /\ last' = Call("search_pastes", a, ex, r)
             /\ stdout' = r.out
    /\ UNCHANGED idle

call_get_pastes_by_language ==
    /\ pc = "client"
    /\ Len(sent) < MaxCalls
    /\ \E ex \in ClientExchanges :
         LET a == [language |-> "javascript", page |-> 0, size |-> 10]
             r == get_pastes_by_language(a.language, a.page, a.size, ex)
         IN  /\ sent' = sent \o r.sent
             /\ last' = Call("get_pastes_by_language", a, ex, r)
             /\ stdout' = r.out
    /\ UNCHANGED idle

call_get_statistics ==
    /\ pc = "client"
    /\ Len(sent) < MaxCalls
    /\ \E ex \in ClientExchanges :
         LET r == get_statistics(ex)
         IN  /\ sent' = sent \o r.sent
             /\ last' = Call("get_statistics", << >>, ex, r)
             /\ stdout' = r.out
    /\ UNCHANGED idle

call_health_check ==
    /\ pc = "client"
    /\ Len(sent) < MaxCalls
    /\ \E ex \in ClientExchanges :
         LET r == health_check(ex)
         IN  /\ sent' = sent \o r.sent
             /\ last' = Call("health_check", << >>, ex, r)
             /\ stdout' = r.out
    /\ UNCHANGED idle

ClientNext ==
    \/ call_create_paste
    \/ call_get_paste
    \/ call_update_paste
    \/ call_delete_paste
    \/ call_get_public_pastes
    \/ call_search_pastes
    \/ call_get_pastes_by_language
    \/ call_get_statistics
    \/ call_health_check

ClientSpec == ClientInit /\ [][ClientNext]_vars

(***************************************************************************)
(* Properties                                                              *)
(***************************************************************************)
Is2xx(ex) == ex.exc = "none" /\ ex.status >= 200 /\ ex.status <= 299

IsErrorStatus(ex) == ex.exc = "none" /\ ex.status >= 400 /\ ex.status <= 599

ResultOps ==
    { "create_paste", "get_paste", "update_paste", "delete_paste",
      "get_public_pastes", "search_pastes", "get_pastes_by_language",
      "get_statistics" }

\* The explicit failure value of an operation
FailureValue(op) == IF op = "delete_paste" THEN PyBool(FALSE) ELSE PyNone

Terminal == { "completed", "returned", "exited", "raised" }

C2_HealthCheckIsBoolean ==
    last.op = "health_check" =>
        /\ last.exc = "none"
        /\ last.ret = PyBool(/\ Is2xx(last.ex)
                             /\ last.ex.text \in JsonTexts
                             /\ loads(last.ex.text).type = "dict"
                             /\ Get(loads(last.ex.text), "status", PyNone) = PyStr("UP"))

\* C3: when the initial health check returns False the driver exits at once
\* with status 1; the health request is the only request of the run.
C3_ExitOnFailedHealthCheck ==
    healthy = PyBool(FALSE) =>
        /\ pc = "exited"
        /\ exit_code = 1
        /\ Len(sent) = 1
        /\ sent[1].url = api_base \o "/health"

C3_Witness ==
    /\ healthy = PyBool(FALSE)
    /\ last.op = "health_check"
    /\ last.ex = Response(200, "{status:DOWN}")
    /\ pc = "exited"

\* C4: once the health check has succeeded, a run that has ended has run to
\* the end: both deletes were sent and the completion message was printed.
C4_HealthyRunCompletes ==
    (pc \in Terminal /\ healthy = PyBool(TRUE)) =>
        /\ pc = "completed"
        /\ Len(sent) = 14
        /\ stdout[Len(stdout)] = Line("Example completed successfully!")

\* What goes over the wire for a request: method, url, password parameter
Wire(req) ==
    [method |-> req.method, url |-> req.url,
     password |-> IF req.params.type = "dict" /\ "password" \in DOMAIN req.params.d
                  THEN req.params.d.password ELSE PyNone]

\* The fixed scenario, for the ids sid and pid of the simple and protected paste
Scenario(sid, pid) ==
    << [method |-> "GET",    url |-> api_base \o "/health",              password |-> PyNone],
       [method |-> "POST",   url |-> api_base,                           password |-> PyNone],
       [method |-> "POST",   url |-> api_base,                           password |-> PyNone],
       [method |-> "POST",   url |-> api_base,                           password |-> PyNone],
       [method |-> "GET",    url |-> api_base \o "/" \o sid,             password |-> PyNone],
       [method |-> "GET",    url |-> api_base \o "/" \o pid,             password |-> PyNone],
       [method |-> "GET",    url |-> api_base \o "/" \o pid,             password |-> PyStr("secret123")],
       [method |-> "PUT",    url |-> api_base \o "/" \o sid,             password |-> PyNone],
       [method |-> "GET",    url |-> api_base \o "/search",              password |-> PyNone],
       [method |-> "GET",    url |-> api_base \o "/language/javascript", password |-> PyNone],
       [method |-> "GET",    url |-> api_base \o "/public",              password |-> PyNone],
       [method |-> "GET",    url |-> api_base \o "/stats",               password |-> PyNone],
       [method |-> "DELETE", url |-> api_base \o "/" \o sid,             password |-> PyNone],
       [method |-> "DELETE", url |-> api_base \o "/" \o pid,             password |-> PyNone] >>

\* The titles of the three create requests, in order
ScenarioTitles ==
    << "Hello World Example", "Secret Code", "Temporary Code Snippet" >>

SentIsPrefixOfScenario ==
    /\ Len(sent) <= 14
    /\ \A i \in 1..Len(sent) :
          /\ Wire(sent[i]) = Scenario(Format(simple_paste_id),
                                      Format(protected_paste_id))[i]
          /\ i \in 2..4 => sent[i].json.d.title = PyStr(ScenarioTitles[i - 1])

\* Every step sends one more request; the ids are those the creates returned
\* and are never changed afterwards.
IdsThreaded ==
    /\ Len(sent') = Len(sent) + 1
    /\ IF pc = "create_simple" /\ pc' = "create_protected"
       THEN simple_paste_id' = loads(last'.ex.text).d.id
       ELSE simple_paste_id' = simple_paste_id
    /\ IF pc = "create_protected" /\ pc' = "create_expiring"
       THEN protected_paste_id' = loads(last'.ex.text).d.id
       ELSE protected_paste_id' = protected_paste_id

\* C5: the requests of a run are a prefix of the fixed scenario (health,
\* three creates, three gets, update, search, by-language, public,
\* statistics, two deletes), and every get, update and delete carries the
\* id returned by the corresponding create.
C5_RequestsFollowScenario == [](SentIsPrefixOfScenario) /\ [][IdsThreaded]_vars

C5_Witness ==
    /\ pc = "completed"
    /\ Len(sent) = 14
    /\ simple_paste_id = PyStr("p2")
    /\ protected_paste_id = PyStr("p1")

\* C6: when an operation other than health_check fails on a non-2xx
\* response, the lines it prints include the raw body of that response.
C6_ReportIncludesBody ==
    (/\ last.op \in ResultOps
     /\ last.ex.exc = "none"
     /\ ~Is2xx(last.ex)
     /\ last.ret = FailureValue(last.op))
        => \E i \in 1..Len(last.out) : last.out[i] = <<"Response", last.ex.text>>

PasswordParam == Wire(last.sent[1]).password

\* C8 (as stated): get_paste sends the password parameter, equal to the
\* argument, whenever a password string is supplied, the empty string
\* included, and sends none when no password is supplied.
C8_PasswordSentWhenSupplied ==
    last.op = "get_paste" =>
        /\ last.args.password.type = "str" => PasswordParam = last.args.password
        /\ last.args.password.type = "NoneType" => PasswordParam = PyNone

\* C8 (amended): get_paste sends one GET to /api/pastes/{id}; the request
\* carries the password parameter, equal to the argument, when a non-empty
\* password is supplied, and no password parameter when the password is
\* absent or the empty string.
C8_PasswordSentWhenNonEmpty ==
    last.op = "get_paste" =>
        /\ last.sent[1].method = "GET"
        /\ last.sent[1].url = api_base \o "/" \o last.args.paste_id.s
        /\ IF last.args.password.type = "str" /\ last.args.password.s # ""
           THEN /\ DOMAIN last.sent[1].params.d = {"password"}
                /\ PasswordParam = last.args.password
           ELSE DOMAIN last.sent[1].params.d = {}

C8_Witness ==
    /\ last.op = "get_paste"
    /\ last.args.password = PyStr("")
    /\ DOMAIN last.sent[1].params.d = {}

CreatedIds ==
    (IF simple_paste_id.type = "str" THEN {simple_paste_id.s} ELSE {})
    \cup (IF protected_paste_id.type = "str" THEN {protected_paste_id.s} ELSE {})
    \cup (IF expiring_paste.type = "dict" /\ "id" \in DOMAIN expiring_paste.d
          THEN {expiring_paste.d.id.s} ELSE {})

\* C10: when a run that passed the health check has ended, a DELETE has
\* been sent for the id of every paste the run created.
C10_CreatedPastesAreDeleted ==
    (pc \in Terminal /\ healthy = PyBool(TRUE)) =>
        \A id \in CreatedIds :
            \E i \in 1..Len(sent) :
                /\ sent[i].method = "DELETE"
                /\ sent[i].url = api_base \o "/" \o id

====
